---- MODULE Spec2Model ----
(***************************************************************************)
(* Model of the mdxts code renderer: the Code server component             *)
(* (components/Code.tsx) and the CodeView component with its helpers       *)
(* calculateLinesToHighlight and getSymbolBounds (components/CodeView.tsx). *)
(*                                                                         *)
(* createSourceFiles(...).get of components/Navigation.ts is modelled too.  *)
(*                                                                         *)
(* Four specifications share the variables:                                *)
(*   SpecNav   get(pathname) on a set of module pathnames;                 *)
(*   SpecHL    the highlight meta string, calculateLinesToHighlight and    *)
(*             the highlight bands;                                        *)
(*   SpecView  one render of a snippet through Code and CodeView, with     *)
(*             the analysed text, its nodes and its diagnostics explicit;  *)
(*   Spec      concurrent renders of Code sharing the ts-morph project,    *)
(*             the filename counter and the memoized declaration loader.   *)
(***************************************************************************)
EXTENDS Integers, Sequences, FiniteSets, TLC

VARIABLES
  highlight,        \* the `highlight` prop (meta string), a sequence of characters
  lineIndex,        \* the zero-based line index the predicate is applied to
  shouldHighlight,  \* the value shouldHighlightLine(lineIndex) returned
  hlpc,             \* "init" before, "done" after the predicate was applied
  bands,            \* the highlight bands CodeView rendered
  renders,          \* the calls of Code in flight
  props,            \* props[r]: the props of call r and what its collaborators return
  pc,               \* pc[r]: where call r of Code stands
  filenameId,       \* the module-level counter `filenameId`
  filename,         \* filename[r]: the local `filename` of call r
  sourceFile,       \* sourceFile[r]: the local `sourceFile` (a handle on a project file)
  isJsxOnly,        \* isJsxOnly[r]: the local `isJsxOnly`
  project,          \* the shared ts-morph project: file name -> source file
  cache,            \* cache[q]: the memoized loadTypeDeclarations() of request q
  loads,            \* loads[q]: how often the loader body ran in request q
  calledLoad,       \* calledLoad[r]: call r has called loadTypeDeclarations()
  view,             \* view[r]: what CodeView rendered for call r
  allModulesKeysByPathname,  \* Object.keys(allModulesKeysByPathname), in key order
  pathname,         \* the `pathname` argument of get: a sequence of segments
  data,             \* what get(pathname) resolved to
  navpc             \* "init" before, "done" after get was called

hlVars == <<highlight, lineIndex, shouldHighlight, hlpc, bands>>

codeVars == <<renders, props, pc, filenameId, filename, sourceFile, isJsxOnly,
              project, cache, loads, calledLoad, view>>

navVars == <<allModulesKeysByPathname, pathname, data, navpc>>

vars == <<hlVars, codeVars, navVars>>

(***************************************************************************)
(* Bounds of the highlight model.                                          *)
(***************************************************************************)
MaxMetaLen == 5   \* longest highlight string
MaxLines == 5     \* number of token lines (line indexes 0..MaxLines-1)

\* The characters a highlight string is made of.
MetaChars == {"0", "1", "3", "4", "a", "-", ","}

Digits == {"0", "1", "2", "3", "4", "5", "6", "7", "8", "9"}

WhiteSpace == {" "}

RECURSIVE SeqsUpTo(_, _)
SeqsUpTo(S, n) ==
  IF n = 0 THEN {<<>>}
  ELSE LET shorter == SeqsUpTo(S, n - 1)
       IN shorter \cup {Append(s, c) : s \in {t \in shorter : Len(t) = n - 1}, c \in S}

\* The `highlight` prop when it is absent.
NoHighlight == <<"undefined">>

(***************************************************************************)
(* JavaScript values of the parsed parts: a number, NaN or undefined.      *)
(***************************************************************************)
Num(n) == [k |-> "num", v |-> n]

NaN == [k |-> "nan", v |-> 0]

Undefined == [k |-> "undef", v |-> 0]

\* if (x) on a number | NaN | undefined
Truthy(x) == x.k = "num" /\ x.v # 0

\* a >= b, a <= b, a === b on numbers; any comparison with NaN is false
JsGe(a, b) == a.k = "num" /\ b.k = "num" /\ a.v >= b.v

JsLe(a, b) == a.k = "num" /\ b.k = "num" /\ a.v <= b.v

JsStrictEq(a, b) == a.k = "num" /\ b.k = "num" /\ a.v = b.v

\* String.prototype.split(sep) for a one-character separator.
RECURSIVE SplitFrom(_, _, _)
SplitFrom(s, sep, cur) ==
  IF s = <<>> THEN <<cur>>
  ELSE IF Head(s) = sep THEN <<cur>> \o SplitFrom(Tail(s), sep, <<>>)
  ELSE SplitFrom(Tail(s), sep, Append(cur, Head(s)))

Split(s, sep) == SplitFrom(s, sep, <<>>)

DigitValue(c) ==
  CASE c = "0" -> 0 [] c = "1" -> 1 [] c = "2" -> 2 [] c = "3" -> 3
    [] c = "4" -> 4 [] c = "5" -> 5 [] c = "6" -> 6 [] c = "7" -> 7
    [] c = "8" -> 8 [] c = "9" -> 9

RECURSIVE SkipWhiteSpace(_)
SkipWhiteSpace(s) ==
  IF s # <<>> /\ Head(s) \in WhiteSpace THEN SkipWhiteSpace(Tail(s)) ELSE s

\* The value of the longest prefix of digits of s, continuing from acc.
RECURSIVE DigitPrefixValue(_, _)
DigitPrefixValue(s, acc) ==
  IF s = <<>> \/ Head(s) \notin Digits THEN acc
  ELSE DigitPrefixValue(Tail(s), acc * 10 + DigitValue(Head(s)))

\* parseInt(s, 10): leading white space is skipped, one sign is accepted, the
\* longest prefix of digits is read; NaN when there is no digit.
ParseInt(s) ==
  LET t == SkipWhiteSpace(s)
      neg == t # <<>> /\ Head(t) = "-"
      u == IF t # <<>> /\ Head(t) \in {"+", "-"} THEN Tail(t) ELSE t
  IN IF u = <<>> \/ Head(u) \notin Digits THEN NaN
     ELSE Num(IF neg THEN 0 - DigitPrefixValue(u, 0) ELSE DigitPrefixValue(u, 0))

\* meta.split(',').map((value) => value.split('-').map((y) => parseInt(y, 10)))
ParseLineNumbers(meta) ==
  LET ranges == Split(meta, ",")
  IN [i \in 1..Len(ranges) |->
        LET parts == Split(ranges[i], "-")
        IN [j \in 1..Len(parts) |-> ParseInt(parts[j])]]

\* Variant of InRange whose upper end is exclusive (lineNumber < end).
InRange_ExclusiveEnd(pair, lineNumber) ==
  LET start == pair[1]
      end == IF Len(pair) >= 2 THEN pair[2] ELSE Undefined
  IN IF Truthy(end)
       THEN JsGe(lineNumber, start) /\ JsLe(lineNumber, end) /\ ~JsStrictEq(lineNumber, end)
       ELSE JsStrictEq(lineNumber, start)

\* ([start, end]) => end ? lineNumber >= start && lineNumber <= end
\*                       : lineNumber === start
InRange(pair, lineNumber) ==
  LET start == pair[1]
      end == IF Len(pair) >= 2 THEN pair[2] ELSE Undefined
  IN IF Truthy(end)
       THEN JsGe(lineNumber, start) /\ JsLe(lineNumber, end)
       ELSE JsStrictEq(lineNumber, start)

\* calculateLinesToHighlight(meta)(index)
CalculateLinesToHighlight(meta, index) ==
  IF meta = NoHighlight \/ meta = <<>> THEN FALSE
  ELSE LET lineNumbers == ParseLineNumbers(meta)
           lineNumber == Num(index + 1)
       IN \E i \in 1..Len(lineNumbers) : InRange(lineNumbers[i], lineNumber)

\* a - b, a + b, a * b on numbers; NaN when an operand is NaN or undefined
JsSub(a, b) == IF a.k = "num" /\ b.k = "num" THEN Num(a.v - b.v) ELSE NaN

JsAdd(a, b) == IF a.k = "num" /\ b.k = "num" THEN Num(a.v + b.v) ELSE NaN

JsMul(a, b) == IF a.k = "num" /\ b.k = "num" THEN Num(a.v * b.v) ELSE NaN

\* The first map of the highlight bands: [start, end] = range.split('-'),
\* parsedEnd = end ? parseInt(end, 10) : parsedStart; `end` is a string here,
\* falsy when it is absent or empty.
ParseHighlightRange(range) ==
  LET parts == Split(range, "-")
      hasEnd == Len(parts) >= 2 /\ parts[2] # <<>>
      parsedStart == ParseInt(parts[1])
      parsedEnd == IF hasEnd THEN ParseInt(parts[2]) ELSE parsedStart
  IN [start |-> parsedStart, end |-> parsedEnd]

\* Variant of BandOfRange that takes the 1-based start line for the top.
BandOfRange_OneBasedTop(range, height) ==
  LET start == JsSub(range.start, Num(1))
      end == IF Truthy(range.end) THEN JsSub(range.end, Num(1)) ELSE start
  IN [top |-> JsMul(range.start, Num(height)),
      height |-> JsMul(JsAdd(JsSub(end, start), Num(1)), Num(height))]

\* Variant of BandOfRange without the fallback for a falsy end.
BandOfRange_NoFallback(range, height) ==
  LET start == JsSub(range.start, Num(1))
      end == JsSub(range.end, Num(1))
  IN [top |-> JsMul(start, Num(height)),
      height |-> JsMul(JsAdd(JsSub(end, start), Num(1)), Num(height))]

\* The second map: start = range.start - 1, end = range.end ? range.end - 1
\* : start, top = start * lineHeight, height = (end - start + 1) * lineHeight.
BandOfRange(range, height) ==
  LET start == JsSub(range.start, Num(1))
      end == IF Truthy(range.end) THEN JsSub(range.end, Num(1)) ELSE start
  IN [top |-> JsMul(start, Num(height)),
      height |-> JsMul(JsAdd(JsSub(end, start), Num(1)), Num(height))]

\* highlight ? highlight.split(',').map(...).map(...) : null
HighlightBands(meta, height) ==
  IF meta = NoHighlight \/ meta = <<>> THEN <<>>
  ELSE LET ranges == Split(meta, ",")
       IN [i \in 1..Len(ranges) |-> BandOfRange(ParseHighlightRange(ranges[i]), height)]

\* No band is rendered yet.
NoBands == [rendered |-> FALSE, list |-> <<>>]

(***************************************************************************)
(* The analysed text of a snippet.  A source file of the ts-morph project  *)
(* is kept as its lines: one line per import declaration, one blank line   *)
(* after the imports, then the code lines; the identifiers and the         *)
(* diagnostics are positioned by line and column, their offsets follow     *)
(* from the lengths of the lines.                                          *)
(***************************************************************************)
lineHeight == 20

MaxUserImports == 1    \* import declarations a snippet writes itself
MaxAddedImports == 1   \* import declarations fixMissingImports adds
MaxIndent == 1         \* leading spaces of the code lines before formatText
MaxCodeLines == 1      \* code lines of a snippet
MaxIdents == 2         \* identifiers in the code lines of a snippet
MaxDiags == 1          \* diagnostics of a snippet
IdentWidth == 1        \* characters of an identifier
ModuleSpecifierWidth == 3   \* characters of a module specifier, quotes included

\* The columns of a code line an identifier or a diagnostic starts at.
Columns == 1..3

LastColumn == CHOOSE c \in Columns : \A d \in Columns : d <= c

\* The lengths of a diagnostic.
DiagLengths == 0..2

LongestDiag == CHOOSE n \in DiagLengths : \A m \in DiagLengths : m <= n

\* `import { X } from 'm'`, `import X from 'm'`, `import * as X from 'm'`: the
\* forms of import fixMissingImports adds.
ImportForms == {"named", "default", "namespace"}

\* The forms of import a snippet writes itself; `import 'm'` binds no name.
UserImportForms == {"named", "sideEffect"}

\* The kind of the parent of the identifier an import declaration binds.
ImportIdentParent(form) ==
  CASE form = "named" -> "ImportSpecifier"
    [] form = "default" -> "ImportClause"
    [] form = "namespace" -> "NamespaceImport"

ImportIdentColumn(form) ==
  CASE form = "named" -> 10
    [] form = "default" -> 8
    [] form = "namespace" -> 13

ImportSpecifierColumn(form) ==
  IF form = "sideEffect" THEN 8
  ELSE ImportIdentColumn(form) + IdentWidth + (IF form = "named" THEN 8 ELSE 6)

\* Lengths of the lines of the text, line break included.
ImportLineLength(form) == ImportSpecifierColumn(form) + ModuleSpecifierWidth

CodeLineLength(doc) == doc.indent + LastColumn + IdentWidth

SeparatorLines(doc) == IF Len(doc.imports) > 0 THEN 1 ELSE 0

LineLengths(doc) ==
  [i \in 1..Len(doc.imports) |-> ImportLineLength(doc.imports[i])]
    \o [i \in 1..SeparatorLines(doc) |-> 1]
    \o [i \in 1..doc.lines |-> CodeLineLength(doc)]

FirstCodeLine(doc) == Len(doc.imports) + SeparatorLines(doc) + 1

RECURSIVE SumTo(_, _)
SumTo(lens, n) == IF n = 0 THEN 0 ELSE SumTo(lens, n - 1) + lens[n]

\* The offset of the character at (line, column), both 1-based.
OffsetOf(doc, line, column) == SumTo(LineLengths(doc), line - 1) + column - 1

\* sourceFile.getLineAndColumnAtPos(pos)
RECURSIVE LineAndColumnFrom(_, _, _)
LineAndColumnFrom(lens, pos, line) ==
  IF Len(lens) <= 1 \/ pos < Head(lens)
    THEN [line |-> line, column |-> pos + 1]
    ELSE LineAndColumnFrom(Tail(lens), pos - Head(lens), line + 1)

GetLineAndColumnAtPos(doc, pos) == LineAndColumnFrom(LineLengths(doc), pos, 1)

\* importDeclaration.getModuleSpecifier() of the i-th import declaration
ModuleSpecifierNode(doc, i) ==
  [kind |-> "StringLiteral", parent |-> "ImportDeclaration",
   start |-> OffsetOf(doc, i, ImportSpecifierColumn(doc.imports[i])),
   width |-> ModuleSpecifierWidth]

ImportIdentifierNode(doc, i) ==
  [kind |-> "Identifier", parent |-> ImportIdentParent(doc.imports[i]),
   start |-> OffsetOf(doc, i, ImportIdentColumn(doc.imports[i])),
   width |-> IdentWidth]

CodeIdentifierNode(doc, id) ==
  [kind |-> "Identifier", parent |-> id.parent,
   start |-> OffsetOf(doc, FirstCodeLine(doc) + id.line - 1, doc.indent + id.col),
   width |-> IdentWidth]

\* The values of a set of [key, val] records in increasing order of key.
RECURSIVE SortByKey(_)
SortByKey(S) ==
  IF S = {} THEN <<>>
  ELSE LET first == CHOOSE a \in S : \A b \in S : a.key <= b.key
       IN <<first.val>> \o SortByKey(S \ {first})

\* Text order of the identifiers and of the diagnostics of the code lines.
IdentKey(id) == id.line * (LastColumn + 1) + id.col

DiagKey(d) == (d.line * (LastColumn + 1) + d.col) * (LongestDiag + 1) + d.length

\* sourceFile.getImportDeclarations()
GetImportDeclarations(doc) == doc.imports

\* sourceFile.getDescendantsOfKind(SyntaxKind.Identifier), in text order
GetIdentifiers(doc) ==
  LET codeIdents == SortByKey({[key |-> IdentKey(id), val |-> id] : id \in doc.idents})
      binding == SelectSeq([i \in 1..Len(doc.imports) |-> i],
                           LAMBDA i : doc.imports[i] # "sideEffect")
  IN [i \in 1..Len(binding) |-> ImportIdentifierNode(doc, binding[i])]
       \o [i \in 1..Len(codeIdents) |-> CodeIdentifierNode(doc, codeIdents[i])]

\* sourceFile.getPreEmitDiagnostics(): start offset and length of each one
GetPreEmitDiagnostics(doc) ==
  LET ds == SortByKey({[key |-> DiagKey(d), val |-> d] : d \in doc.diags})
  IN [i \in 1..Len(ds) |->
        [start |-> OffsetOf(doc, FirstCodeLine(doc) + ds[i].line - 1, doc.indent + ds[i].col),
         length |-> ds[i].length]]

\* project.createSourceFile(filename, text, { overwrite: true }): the file of
\* the text of call `owner`, with the imports the snippet itself wrote.
CreateSourceFile(snippet, owner) ==
  [owner |-> owner,
   imports |-> snippet.imports,
   indent |-> snippet.indent,
   lines |-> snippet.lines,
   idents |-> snippet.idents,
   diags |-> snippet.diags,
   ops |-> <<"createSourceFile">>]

\* sourceFile.fixMissingImports(): `add` import declarations of one form are
\* inserted after the present ones, followed by a blank line.
FixMissingImports(doc, add, form) ==
  [doc EXCEPT !.imports = @ \o [i \in 1..add |-> form],
              !.ops = Append(@, "fixMissingImports")]

\* sourceFile.formatText({ indentSize: 2 }): top-level lines lose their indent.
FormatText(doc) ==
  [doc EXCEPT !.indent = 0, !.ops = Append(@, "formatText")]

(***************************************************************************)
(* CodeView: symbol bounds, diagnostics and tokens of one render.          *)
(***************************************************************************)
\* Variant of KeepNode that keeps the nodes of documentation tags.
KeepNode_KeepsDocTags(node, jsxOnly) ==
  LET isJsxOnlyImport ==
        IF jsxOnly THEN node.parent = "ImportSpecifier" \/ node.parent = "ImportClause"
        ELSE FALSE
  IN node.parent # "JSDoc" /\ ~isJsxOnlyImport

\* The filter of getSymbolBounds: nodes of documentation comments are dropped,
\* and, for a JSX-only snippet, the identifiers of import specifiers and clauses.
KeepNode(node, jsxOnly) ==
  LET isJsxOnlyImport ==
        IF jsxOnly THEN node.parent = "ImportSpecifier" \/ node.parent = "ImportClause"
        ELSE FALSE
  IN node.parent # "JSDocTag" /\ node.parent # "JSDoc" /\ ~isJsxOnlyImport

\* The yOffset of getSymbolBounds.
SymbolYOffset(jsxOnly, importCount) == IF jsxOnly THEN importCount + 2 ELSE 1

\* The yOffset of the diagnostic decorations of CodeView.
DiagnosticYOffset(jsxOnly, importCount) == IF jsxOnly THEN 2 ELSE 1

\* getSymbolBounds(sourceFile, isJsxOnly, lineHeight)
GetSymbolBounds(doc, jsxOnly) ==
  LET importSpecifiers ==
        IF jsxOnly THEN <<>>
        ELSE [i \in 1..Len(GetImportDeclarations(doc)) |-> ModuleSpecifierNode(doc, i)]
      identifiers == GetIdentifiers(doc)
      importCount == Len(GetImportDeclarations(doc))
      allNodes == importSpecifiers \o identifiers
      kept == SelectSeq(allNodes, LAMBDA node : KeepNode(node, jsxOnly))
  IN [i \in 1..Len(kept) |->
        LET start == kept[i].start
            lc == GetLineAndColumnAtPos(doc, start)
            yOffset == SymbolYOffset(jsxOnly, importCount)
        IN [start |-> start,
            top |-> (lc.line - yOffset) * lineHeight,
            left |-> lc.column - 1,
            width |-> kept[i].width,
            height |-> lineHeight]]

\* The box CodeView draws for one diagnostic.
DiagnosticDecoration(doc, diagnostic, jsxOnly) ==
  LET start == diagnostic.start
      end == start + diagnostic.length
      lc == GetLineAndColumnAtPos(doc, start)
      yOffset == DiagnosticYOffset(jsxOnly, Len(GetImportDeclarations(doc)))
  IN [start |-> start,
      top |-> (lc.line - yOffset) * lineHeight,
      left |-> lc.column - 1,
      width |-> end - start,
      height |-> lineHeight]

\* Variant of CoversSymbol whose end is exclusive (bounds.start < end).
CoversSymbol_ExclusiveEnd(diagnostic, bounds) ==
  LET start == diagnostic.start
      end == start + diagnostic.length
  IN start <= bounds.start /\ bounds.start < end

\* start <= bounds.start && bounds.start <= end
CoversSymbol(diagnostic, bounds) ==
  LET start == diagnostic.start
      end == start + diagnostic.length
  IN start <= bounds.start /\ bounds.start <= end

\* diagnostics.filter(...) for one symbol bound
FilterDiagnostics(diagnostics, bounds) ==
  SelectSeq(diagnostics, LAMBDA diagnostic : CoversSymbol(diagnostic, bounds))

\* The `showErrors` prop: true, false or absent.
ShowErrorsValues == {"true", "false", "undefined"}

\* Variant of IsQuickInfoOpen that ignores showErrors.
IsQuickInfoOpen_IgnoresShowErrors(showErrors, filteredDiagnostics) ==
  IF Len(filteredDiagnostics) > 0 THEN "true" ELSE "false"

\* showErrors && filteredDiagnostics.length > 0: a falsy left operand is the
\* value of the expression, else the comparison is.
IsQuickInfoOpen(showErrors, filteredDiagnostics) ==
  IF showErrors \in {"false", "undefined"} THEN showErrors
  ELSE IF Len(filteredDiagnostics) > 0 THEN "true" ELSE "false"

\* theme.colors['editor.foreground']
ThemeEditorForeground == <<"#", "F", "F">>

LowerChar(c) == CASE c = "F" -> "f" [] c = "A" -> "a" [] OTHER -> c

\* String.prototype.toLowerCase()
ToLowerCase(s) == [i \in 1..Len(s) |-> LowerChar(s[i])]

RECURSIVE TrimStart(_)
TrimStart(s) == IF s # <<>> /\ Head(s) \in WhiteSpace THEN TrimStart(Tail(s)) ELSE s

RECURSIVE TrimEnd(_)
TrimEnd(s) ==
  IF s # <<>> /\ s[Len(s)] \in WhiteSpace THEN TrimEnd(SubSeq(s, 1, Len(s) - 1)) ELSE s

\* String.prototype.trim()
Trim(s) == TrimEnd(TrimStart(s))

\* Variant of RenderToken that compares the colors case-sensitively.
RenderToken_CaseSensitive(token, editorForeground) ==
  IF token.color = editorForeground \/ Trim(token.content) = <<>>
    THEN [kind |-> "text", content |-> token.content, color |-> <<>>,
          fontStyle |-> "", textDecoration |-> ""]
    ELSE [kind |-> "span", content |-> token.content, color |-> token.color,
          fontStyle |-> token.fontStyle,
          textDecoration |-> IF token.hasError THEN "red wavy underline" ELSE "none"]

\* One token of the token stream: plain text or a styled span.
RenderToken(token, editorForeground) ==
  IF ToLowerCase(token.color) = editorForeground \/ Trim(token.content) = <<>>
    THEN [kind |-> "text", content |-> token.content, color |-> <<>>,
          fontStyle |-> "", textDecoration |-> ""]
    ELSE [kind |-> "span", content |-> token.content, color |-> token.color,
          fontStyle |-> token.fontStyle,
          textDecoration |-> IF token.hasError THEN "red wavy underline" ELSE "none"]

\* tokens.map((line, lineIndex) => ...): the lines, a line break after each but the last
RenderLines(tokens, editorForeground) ==
  [i \in 1..Len(tokens) |->
     [items |-> [j \in 1..Len(tokens[i]) |-> RenderToken(tokens[i][j], editorForeground)],
      lineBreak |-> i # Len(tokens)]]

\* What CodeView has rendered before it was called.
NoView ==
  [symbols |-> <<>>, decorations |-> <<>>,
   diagnostics |-> [defined |-> FALSE, list |-> <<>>],
   lines |-> <<>>, boundsOps |-> <<>>, diagnosticsOps |-> <<>>, textOwner |-> 0]

\* CodeView({ tokens, sourceFile, isJsxOnly, theme, showErrors, ... }); hasFile
\* is false when sourceFile is undefined.
CodeView(hasFile, doc, jsxOnly, tokens, showErrors) ==
  LET editorForeground == ToLowerCase(ThemeEditorForeground)
      symbolBounds == IF hasFile THEN GetSymbolBounds(doc, jsxOnly) ELSE <<>>
      diagnostics == IF hasFile THEN GetPreEmitDiagnostics(doc) ELSE <<>>
  IN [symbols |->
        [i \in 1..Len(symbolBounds) |->
           [bounds |-> symbolBounds[i],
            diagnostics |-> FilterDiagnostics(diagnostics, symbolBounds[i]),
            isQuickInfoOpen |->
              IsQuickInfoOpen(showErrors, FilterDiagnostics(diagnostics, symbolBounds[i]))]],
      decorations |->
        IF hasFile
          THEN [i \in 1..Len(diagnostics) |-> DiagnosticDecoration(doc, diagnostics[i], jsxOnly)]
          ELSE <<>>,
      diagnostics |-> [defined |-> hasFile, list |-> diagnostics],
      lines |-> RenderLines(tokens, editorForeground),
      boundsOps |-> IF hasFile THEN doc.ops ELSE <<>>,
      diagnosticsOps |-> IF hasFile THEN doc.ops ELSE <<>>,
      textOwner |-> IF hasFile THEN doc.owner ELSE 0]

(***************************************************************************)
(* Code: the async server component.  Each call runs to its next `await`   *)
(* in one step; other calls run between the steps.                         *)
(***************************************************************************)
NumRenders == 2    \* concurrent calls of Code
NumRequests == 2   \* server requests the calls belong to

\* No file: `sourceFile` undefined, `filename` not yet computed.
NoFile == <<>>

\* languageMap[language] ?? language
LanguageMap(language) ==
  CASE language = "shell" -> "shellscript"
    [] language = "bash" -> "shellscript"
    [] language = "mjs" -> "javascript"
    [] OTHER -> language

\* sourcePath.split('.').pop(), a path being kept as its dot-separated parts
Extension(path) == path[Len(path)]

\* Variant of IsAnalyzable that also takes the mapped language of mjs.
IsAnalyzable_Javascript(language) ==
  language \in {"js", "jsx", "ts", "tsx", "javascript"}

\* ['js', 'jsx', 'ts', 'tsx'].includes(finalLanguage)
IsAnalyzable(language) == language \in {"js", "jsx", "ts", "tsx"}

\* finalLanguage of a call with props p
FinalLanguage(p) ==
  IF p.naming = "source" THEN Extension(p.name) ELSE LanguageMap(p.language)

\* 'value' in props, 'source' in props: a call that supplies neither prop.
SuppliesNeither(p) == p.naming # "source" /\ ~p.hasValue

\* The text of `undefined`: createSourceFile(filename, undefined) registers an
\* empty file.
UndefinedValue ==
  [imports |-> <<>>, indent |-> 0, lines |-> 1, idents |-> {}, diags |-> {}]

\* finalValue: props.value, the contents readFile returned, or undefined.
FinalValue(p) == IF SuppliesNeither(p) THEN UndefinedValue ELSE p.snippet

\* highlighter(finalValue, finalLanguage, sourceFile, isJsxOnly): the
\* highlighter returns its tokens; what it does with an undefined value is
\* not fixed by Code, it returns or it throws.
HighlighterOutcomes(p) ==
  IF SuppliesNeither(p) THEN {"returned", "threw"} ELSE {"returned"}

\* Variant of GeneratedFilename that ignores the counter.
GeneratedFilename_NoCounter(id, language) == <<"0", "mdxts", language>>

\* `${filenameId++}.mdxts.${finalLanguage}`
GeneratedFilename(id, language) == <<ToString(id), "mdxts", language>>

\* The files .next/static/mdxts/types.json lists, as loadTypeDeclarations creates them.
TypeDeclarationFiles ==
  [path \in {<<"react", "d", "ts">>} |->
     [owner |-> 0, imports |-> <<>>, indent |-> 0, lines |-> 1,
      idents |-> {}, diags |-> {}, ops |-> <<"createSourceFile">>]]

\* Variant of AnalyzedSourceFile that leaves the text unformatted.
AnalyzedSourceFile_NoFormat(snippet, r, add, form) ==
  FixMissingImports(CreateSourceFile(snippet, r), add, form)

\* Lines 97-110 of Code on the text of call r: the file is created, missing
\* imports are fixed, the text is formatted.
AnalyzedSourceFile(snippet, r, add, form) ==
  FormatText(FixMissingImports(CreateSourceFile(snippet, r), add, form))

\* importCount === 0 && sourceFile.getImportDeclarations().length > 0
DetectJsxOnly(importCount, fixed) ==
  importCount = 0 /\ Len(GetImportDeclarations(fixed)) > 0

\* Code up to its first await: `await readFile(sourcePath)` for a source, else
\* the filename is computed and `await getHighlighter({ theme })` is reached.
Start(r) ==
  /\ r \in renders
  /\ pc[r] = "start"
  /\ IF props[r].naming = "source"
       THEN /\ pc' = [pc EXCEPT ![r] = "readFile"]
            /\ UNCHANGED <<filename, filenameId>>
       ELSE /\ pc' = [pc EXCEPT ![r] = "getHighlighter"]
            /\ IF props[r].naming = "filename"
                 THEN /\ filename' = [filename EXCEPT ![r] = props[r].name]
                      /\ UNCHANGED filenameId
                 ELSE /\ filename' = [filename EXCEPT ![r] =
                                        GeneratedFilename(filenameId, FinalLanguage(props[r]))]
                      /\ filenameId' = filenameId + 1
  /\ UNCHANGED <<renders, props, sourceFile, isJsxOnly, project, cache, loads,
                 calledLoad, view, hlVars, navVars>>

\* readFile(sourcePath) resolved: filename = props.source, then
\* `await getHighlighter({ theme })`.
SourceRead(r) ==
  /\ r \in renders
  /\ pc[r] = "readFile"
  /\ filename' = [filename EXCEPT ![r] = props[r].name]
  /\ pc' = [pc EXCEPT ![r] = "getHighlighter"]
  /\ UNCHANGED <<renders, props, filenameId, sourceFile, isJsxOnly, project, cache,
                 loads, calledLoad, view, hlVars, navVars>>

\* Variant of RunsLoader without memoization: every call runs the loader.
RunsLoader_Always(state) == TRUE

\* cache(fn): the loader body runs when the request's cache holds no entry.
RunsLoader(state) == state = "empty"

\* getHighlighter resolved.  For js, jsx, ts and tsx loadTypeDeclarations() is
\* called and awaited: React's cache() memoizes the call in the scope of the
\* server request, the first call of a request runs the loader.  For any other
\* language the highlighter is called and Code returns.
HighlighterReady(r) ==
  LET q == props[r].request
  IN /\ r \in renders
     /\ pc[r] = "getHighlighter"
     /\ IF IsAnalyzable(FinalLanguage(props[r]))
          THEN /\ pc' = [pc EXCEPT ![r] = "loadTypeDeclarations"]
               /\ calledLoad' = [calledLoad EXCEPT ![r] = TRUE]
               /\ IF RunsLoader(cache[q])
                    THEN /\ cache' = [cache EXCEPT ![q] = "pending"]
                         /\ loads' = [loads EXCEPT ![q] = @ + 1]
                    ELSE UNCHANGED <<cache, loads>>
          ELSE /\ \E outcome \in HighlighterOutcomes(props[r]) :
                    pc' = [pc EXCEPT ![r] = outcome]
               /\ UNCHANGED <<calledLoad, cache, loads>>
     /\ UNCHANGED <<renders, props, filenameId, filename, sourceFile, isJsxOnly,
                    project, view, hlVars, navVars>>

\* The loader body of request q completes: types.json is read and every
\* declaration is created in the project.
TypeDeclarationsLoaded(q) ==
  /\ cache[q] = "pending"
  /\ project' = TypeDeclarationFiles @@ project
  /\ cache' = [cache EXCEPT ![q] = "resolved"]
  /\ UNCHANGED <<renders, props, pc, filenameId, filename, sourceFile, isJsxOnly,
                 loads, calledLoad, view, hlVars, navVars>>

\* The identifiers of the code an import can be missing for: the references,
\* not the names of documentation comments and not the declared names.
MissingNames(snippet) ==
  {id \in snippet.idents : id.parent \notin {"JSDoc", "JSDocTag", "VariableDeclaration"}}

\* `await loadTypeDeclarations()` resumes: lines 97-113 run without an await.
\* fixMissingImports adds `add` imports of form `form`, at most one for each
\* identifier of the code.
Analyze(r) ==
  /\ r \in renders
  /\ pc[r] = "loadTypeDeclarations"
  /\ cache[props[r].request] = "resolved"
  /\ \E add \in 0..MaxAddedImports, form \in props[r].forms :
       LET finalValue == FinalValue(props[r])
           created == CreateSourceFile(finalValue, r)
           importCount == Len(GetImportDeclarations(created))
           doc == AnalyzedSourceFile(finalValue, r, add, form)
       IN /\ add = 0 => form = "named"
          /\ add <= Cardinality(MissingNames(finalValue))
          /\ project' = (filename[r] :> doc) @@ project
          /\ sourceFile' = [sourceFile EXCEPT ![r] = filename[r]]
          /\ isJsxOnly' = [isJsxOnly EXCEPT ![r] = DetectJsxOnly(importCount, doc)]
  /\ \E outcome \in HighlighterOutcomes(props[r]) : pc' = [pc EXCEPT ![r] = outcome]
  /\ UNCHANGED <<renders, props, filenameId, filename, cache, loads, calledLoad, view, hlVars, navVars>>

\* React renders the CodeView element Code returned.
RenderCodeView(r) ==
  /\ r \in renders
  /\ pc[r] = "returned"
  /\ view' = [view EXCEPT ![r] =
       IF sourceFile[r] = NoFile
         THEN CodeView(FALSE, CreateSourceFile(FinalValue(props[r]), r), isJsxOnly[r],
                       props[r].tokens, props[r].showErrors)
         ELSE CodeView(TRUE, project[sourceFile[r]], isJsxOnly[r], props[r].tokens,
                       props[r].showErrors)]
  /\ pc' = [pc EXCEPT ![r] = "done"]
  /\ UNCHANGED <<renders, props, filenameId, filename, sourceFile, isJsxOnly, project,
                 cache, loads, calledLoad, hlVars, navVars>>

Next ==
  \/ \E r \in 1..NumRenders : Start(r)
  \/ \E r \in 1..NumRenders : SourceRead(r)
  \/ \E r \in 1..NumRenders : HighlighterReady(r)
  \/ \E q \in 1..NumRequests : TypeDeclarationsLoaded(q)
  \/ \E r \in 1..NumRenders : Analyze(r)
  \/ \E r \in 1..NumRenders : RenderCodeView(r)

(***************************************************************************)
(* The inputs: snippets, highlighter tokens and props.                     *)
(***************************************************************************)
\* The subsets of S of at most n elements.
RECURSIVE SubsetsUpTo(_, _)
SubsetsUpTo(S, n) ==
  IF n = 0 THEN {{}}
  ELSE LET smaller == SubsetsUpTo(S, n - 1)
       IN smaller \cup {T \cup {x} : T \in smaller, x \in S}

NodeParents == {"Other", "JSDoc", "JSDocTag"}

IdentChoices(lines) ==
  [line : 1..lines, col : Columns, parent : NodeParents]

DiagChoices(lines) ==
  [line : 1..lines, col : Columns, length : DiagLengths]

\* Two identifiers of a text do not touch.
Separated(ids) ==
  \A a \in ids, b \in ids :
     (a # b /\ a.line = b.line) => (a.col + IdentWidth < b.col \/ b.col + IdentWidth < a.col)

\* The imports a snippet writes: none, or MaxUserImports of one form.
UserImports ==
  {<<>>} \cup {[i \in 1..MaxUserImports |-> form] : form \in UserImportForms}

Snippets ==
  UNION {[imports : UserImports,
          indent : {0, MaxIndent},
          lines : {n},
          idents : {ids \in SubsetsUpTo(IdentChoices(n), MaxIdents) : Separated(ids)},
          diags : SubsetsUpTo(DiagChoices(n), MaxDiags)] : n \in 1..MaxCodeLines}

\* `const a = f()`: one line with a top-level statement, the declared name and
\* a reference, no diagnostic.
PlainSnippet ==
  [imports |-> <<>>, indent |-> 0, lines |-> 1,
   idents |-> {[line |-> 1, col |-> 1, parent |-> "VariableDeclaration"],
               [line |-> 1, col |-> LastColumn, parent |-> "CallExpression"]},
   diags |-> {}]

\* What the highlighter returns: lines of tokens.
PlainTokens ==
  << << [content |-> <<"x">>, color |-> <<"#", "f", "0">>, fontStyle |-> "", hasError |-> FALSE],
        [content |-> <<" ">>, color |-> <<"#", "f", "0">>, fontStyle |-> "", hasError |-> FALSE],
        [content |-> <<"y">>, color |-> <<"#", "f", "f">>, fontStyle |-> "", hasError |-> FALSE] >>,
     << [content |-> <<"z">>, color |-> <<"#", "0", "0">>, fontStyle |-> "italic", hasError |-> TRUE] >> >>

\* The tokens a highlighter may return: colors that equal the theme's
\* foreground up to letter case or differ from it, contents with and without
\* white space, font styles, error flags.
Tokens ==
  [content : {<<"x">>, <<" ">>, <<>>, <<" ", "x">>, <<" ", " ">>},
   color : {<<"#", "F", "F">>, <<"#", "f", "f">>, <<"#", "f", "F">>,
            <<"#", "f", "0">>, <<"#", "F", "0">>},
   fontStyle : {"", "italic"},
   hasError : BOOLEAN]

\* The props of concurrent calls: how the file is named, whether `value` is
\* supplied, the language, the request; `forms` are the forms of import
\* fixMissingImports may add.
CallProps ==
  {[naming |-> n.naming, name |-> n.name, hasValue |-> n.hasValue,
    language |-> n.language, request |-> q,
    snippet |-> PlainSnippet, tokens |-> PlainTokens, showErrors |-> "undefined",
    forms |-> {"named"}] :
     n \in {[naming |-> "auto", name |-> NoFile, hasValue |-> TRUE, language |-> "tsx"],
            [naming |-> "auto", name |-> NoFile, hasValue |-> TRUE, language |-> "mjs"],
            [naming |-> "auto", name |-> NoFile, hasValue |-> FALSE, language |-> "tsx"],
            [naming |-> "filename", name |-> <<"a", "tsx">>, hasValue |-> TRUE, language |-> "tsx"],
            [naming |-> "source", name |-> <<"a", "tsx">>, hasValue |-> FALSE, language |-> "tsx"]},
     q \in 1..NumRequests}

\* The props of one call on any snippet.
SnippetProps ==
  {[naming |-> "auto", name |-> NoFile, hasValue |-> TRUE, language |-> "tsx",
    request |-> 1,
    snippet |-> s, tokens |-> PlainTokens, showErrors |-> "undefined",
    forms |-> ImportForms] : s \in Snippets}

\* The props of one call with and without showErrors, on the snippets that
\* are written without imports and without indent.
ShowErrorsProps ==
  {[naming |-> "auto", name |-> NoFile, hasValue |-> TRUE, language |-> "tsx",
    request |-> 1,
    snippet |-> s, tokens |-> PlainTokens, showErrors |-> e, forms |-> {"named"}] :
     s \in {t \in Snippets : t.imports = <<>> /\ t.indent = 0}, e \in ShowErrorsValues}

\* The props of one call whose highlighter returns one line of one token.
TokenProps ==
  {[naming |-> "auto", name |-> NoFile, hasValue |-> TRUE, language |-> "tsx",
    request |-> 1,
    snippet |-> PlainSnippet, tokens |-> <<<<t>>>>, showErrors |-> "undefined",
    forms |-> {"named"}] : t \in Tokens}

InitCode(ids, P) ==
  /\ renders = ids
  /\ props \in [ids -> P]
  /\ \A r \in ids : props[r].request <= r   \* requests are numbered as their first call
  /\ pc = [r \in ids |-> "start"]
  /\ filenameId = 0
  /\ filename = [r \in ids |-> NoFile]
  /\ sourceFile = [r \in ids |-> NoFile]
  /\ isJsxOnly = [r \in ids |-> FALSE]
  /\ project = <<>>
  /\ cache = [q \in 1..NumRequests |-> "empty"]
  /\ loads = [q \in 1..NumRequests |-> 0]
  /\ calledLoad = [r \in ids |-> FALSE]
  /\ view = [r \in ids |-> NoView]

InitNoHighlight ==
  /\ highlight = NoHighlight
  /\ lineIndex = 0
  /\ shouldHighlight = FALSE
  /\ hlpc = "init"
  /\ bands = NoBands

\* `null`, and `undefined` for a key that does not exist.
Null == <<"null">>

UndefinedKey == <<"undefined">>

\* get has not been called.
InitNoNavigation ==
  /\ allModulesKeysByPathname = <<>>
  /\ pathname = <<>>
  /\ data = [isNull |-> TRUE, active |-> Null, previous |-> Null, next |-> Null]
  /\ navpc = "init"

\* Concurrent calls of Code.
Init == InitNoHighlight /\ InitNoNavigation /\ InitCode(1..NumRenders, CallProps)

Spec == Init /\ [][Next]_vars

\* One call of Code on any snippet.
InitView ==
  /\ InitNoHighlight
  /\ InitNoNavigation
  /\ InitCode({1}, SnippetProps \cup ShowErrorsProps \cup TokenProps \cup CallProps)

SpecView == InitView /\ [][Next]_vars

(***************************************************************************)
(* The highlight string on its own.                                        *)
(***************************************************************************)
InitHL ==
  /\ highlight \in SeqsUpTo(MetaChars, MaxMetaLen) \cup {NoHighlight}
  /\ lineIndex = 0
  /\ shouldHighlight = FALSE
  /\ hlpc = "init"
  /\ bands = NoBands
  /\ InitNoNavigation
  /\ InitCode({}, CallProps)

\* CodeView applies shouldHighlightLine to the index of a token line.
ShouldHighlightLine(index) ==
  /\ hlpc = "init"
  /\ lineIndex' = index
  /\ shouldHighlight' = CalculateLinesToHighlight(highlight, index)
  /\ hlpc' = "done"
  /\ UNCHANGED <<highlight, bands, codeVars, navVars>>

\* CodeView renders the highlight bands below the tokens.
RenderHighlightBands ==
  /\ ~bands.rendered
  /\ bands' = [rendered |-> TRUE, list |-> HighlightBands(highlight, lineHeight)]
  /\ UNCHANGED <<highlight, lineIndex, shouldHighlight, hlpc, codeVars, navVars>>

NextHL ==
  \/ \E index \in 0..(MaxLines - 1) : ShouldHighlightLine(index)
  \/ RenderHighlightBands

SpecHL == InitHL /\ [][NextHL]_vars

(***************************************************************************)
(* Navigation: createSourceFiles(...).get(pathname) and getPathData.       *)
(***************************************************************************)
MaxKeys == 3       \* modules of a createSourceFiles call
MaxSegments == 2   \* segments of a pathname

\* The segments pathnames are made of.
Segments == {<<"a">>, <<"a", "b">>}

\* pathname.join('/')
RECURSIVE Join(_)
Join(segments) ==
  IF segments = <<>> THEN <<>>
  ELSE IF Len(segments) = 1 THEN segments[1]
  ELSE segments[1] \o <<"/">> \o Join(Tail(segments))

\* String.prototype.includes(searchString)
Includes(string, searchString) ==
  \E i \in 0..(Len(string) - Len(searchString)) :
     SubSeq(string, i + 1, i + Len(searchString)) = searchString

\* Object.keys(allModulesKeysByPathname).findIndex((dataPathname) =>
\*   dataPathname.includes(pathname.join('/'))), searching from `index`;
\* indexes are zero-based, -1 when no key matches.
RECURSIVE FindActiveIndex(_, _, _)
FindActiveIndex(keys, joined, index) ==
  IF index >= Len(keys) THEN 0 - 1
  ELSE IF Includes(keys[index + 1], joined) THEN index
  ELSE FindActiveIndex(keys, joined, index + 1)

\* getSiblingPathname(startIndex, direction): the key at the sibling index,
\* undefined outside of the keys (the `=== null` branch is never taken).
GetSiblingPathname(keys, startIndex, direction) ==
  LET siblingIndex == startIndex + direction
  IN IF 0 <= siblingIndex /\ siblingIndex < Len(keys)
       THEN keys[siblingIndex + 1] ELSE UndefinedKey

\* parseModule(pathname): null for undefined and for a pathname that is not a
\* key, else the module, which is identified by its `pathname` field.
ParseModule(keys, key) ==
  IF key = UndefinedKey \/ \A i \in 1..Len(keys) : keys[i] # key THEN Null
  ELSE <<"/">> \o key

\* getPathData(pathname)
GetPathData(keys, segments) ==
  LET joined == Join(segments)
      activeIndex == FindActiveIndex(keys, joined, 0)
      active == ParseModule(keys, joined)
      previous == ParseModule(keys, GetSiblingPathname(keys, activeIndex, 0 - 1))
      next == ParseModule(keys, GetSiblingPathname(keys, activeIndex, 1))
  IN IF active = Null
       THEN [isNull |-> TRUE, active |-> Null, previous |-> Null, next |-> Null]
       ELSE [isNull |-> FALSE, active |-> active, previous |-> previous, next |-> next]

\* The pathnames of at most n segments.
RECURSIVE PathnamesUpTo(_)
PathnamesUpTo(n) ==
  IF n = 0 THEN {}
  ELSE {<<segment>> : segment \in Segments}
         \cup {<<segment>> \o rest : segment \in Segments, rest \in PathnamesUpTo(n - 1)}

\* The sequences of at most n distinct elements of S.
RECURSIVE DistinctSeqsUpTo(_, _)
DistinctSeqsUpTo(S, n) ==
  IF n = 0 THEN {<<>>}
  ELSE LET shorter == DistinctSeqsUpTo(S, n - 1)
           longer == {Append(q, x) : q \in {t \in shorter : Len(t) = n - 1}, x \in S}
       IN shorter \cup {q \in longer : \A i \in 1..(n - 1) : q[i] # q[n]}

InitNav ==
  /\ allModulesKeysByPathname
       \in DistinctSeqsUpTo({Join(path) : path \in PathnamesUpTo(MaxSegments)}, MaxKeys)
  /\ pathname \in PathnamesUpTo(MaxSegments)
  /\ data = [isNull |-> TRUE, active |-> Null, previous |-> Null, next |-> Null]
  /\ navpc = "init"
  /\ InitNoHighlight
  /\ InitCode({}, CallProps)

\* createSourceFiles(...).get(pathname)
Get ==
  /\ navpc = "init"
  /\ data' = GetPathData(allModulesKeysByPathname, pathname)
  /\ navpc' = "done"
  /\ UNCHANGED <<allModulesKeysByPathname, pathname, hlVars, codeVars>>

NextNav == Get

SpecNav == InitNav /\ [][NextNav]_vars

(***************************************************************************)
(* Claims about calculateLinesToHighlight (checked under SpecHL).          *)
(***************************************************************************)
\* The value of a string of digits, read independently of ParseInt.
RECURSIVE DecimalValue(_)
DecimalValue(s) ==
  IF s = <<>> THEN 0
  ELSE DecimalValue(SubSeq(s, 1, Len(s) - 1)) * 10 + DigitValue(s[Len(s)])

\* A 1-based integer literal: digits only, value at least 1.
IsLineNumber(s) ==
  /\ s # <<>>
  /\ \A i \in 1..Len(s) : s[i] \in Digits
  /\ DecimalValue(s) >= 1

MetaTokens == Split(highlight, ",")

\* A token of the documented grammar: `N` or `N-M`.
IsWellFormedToken(t) ==
  LET parts == Split(t, "-")
  IN /\ Len(parts) \in {1, 2}
     /\ \A j \in 1..Len(parts) : IsLineNumber(parts[j])

IsWellFormedMeta ==
  /\ highlight # NoHighlight
  /\ highlight # <<>>
  /\ \A i \in 1..Len(MetaTokens) : IsWellFormedToken(MetaTokens[i])

\* The lines a well-formed token stands for: {N} or N..M.
TokenCoversLine(t, line) ==
  LET parts == Split(t, "-")
  IN IF Len(parts) = 1 THEN line = DecimalValue(parts[1])
     ELSE DecimalValue(parts[1]) <= line /\ line <= DecimalValue(parts[2])

\* C1: for a highlight string of well-formed tokens `N` or `N-M` (1-based
\* integers) the predicate is true for zero-based index i exactly when line
\* i+1 is N of a single-number token or lies in N..M of a range token.
C1_PredicateMatchesRanges ==
  (hlpc = "done" /\ IsWellFormedMeta)
    => (shouldHighlight <=>
          \E i \in 1..Len(MetaTokens) : TokenCoversLine(MetaTokens[i], lineIndex + 1))

\* "1,3-4" applied to line 4 (the inclusive upper end of the range token).
C1_Witness ==
  /\ hlpc = "done"
  /\ highlight = <<"1", ",", "3", "-", "4">>
  /\ lineIndex = 3
  /\ shouldHighlight

\* A token whose start or end part does not parse as an integer.
IsMalformedToken(t) ==
  LET parts == Split(t, "-")
  IN \/ ParseInt(parts[1]).k = "nan"
     \/ Len(parts) >= 2 /\ ParseInt(parts[2]).k = "nan"

\* C2: a malformed (non-numeric) token never matches a line: a line is
\* highlighted only when one of the tokens whose parts all parse matches it.
C2_MalformedTokenNeverMatches ==
  (hlpc = "done" /\ highlight # NoHighlight /\ highlight # <<>>)
    => (shouldHighlight <=>
          \E i \in 1..Len(MetaTokens) :
             /\ ~IsMalformedToken(MetaTokens[i])
             /\ InRange(ParseLineNumbers(highlight)[i], Num(lineIndex + 1)))

(***************************************************************************)
(* Claims about CodeView (checked under SpecView).                         *)
(***************************************************************************)
IsRendered(r) == r \in renders /\ pc[r] = "done"

HasSourceFile(r) == r \in renders /\ sourceFile[r] # NoFile

Elements(s) == {s[i] : i \in 1..Len(s)}

\* C3: a diagnostic with start s and length n is in the filtered subset of a
\* symbol bound exactly when s <= bound.start <= s + n, both ends inclusive.
C3_FilterIsInclusive ==
  \A r \in renders :
    IsRendered(r) =>
      \A sym \in Elements(view[r].symbols) :
        /\ Elements(sym.diagnostics) \subseteq Elements(view[r].diagnostics.list)
        /\ \A d \in Elements(view[r].diagnostics.list) :
             (d \in Elements(sym.diagnostics))
               <=> (d.start <= sym.bounds.start /\ sym.bounds.start <= d.start + d.length)

\* A symbol that starts where a diagnostic ends has it; a symbol that starts
\* before the diagnostic has not.
C3_Witness ==
  \E r \in renders :
    /\ IsRendered(r)
    /\ \E sym \in Elements(view[r].symbols), other \in Elements(view[r].symbols) :
         \E d \in Elements(view[r].diagnostics.list) :
            /\ d.length >= 1
            /\ sym.bounds.start = d.start + d.length
            /\ d \in Elements(sym.diagnostics)
            /\ other.bounds.start < d.start
            /\ d \notin Elements(other.diagnostics)

\* C4: the diagnostics attached to a symbol bound are exactly those whose
\* half-open span [start, start + length) contains the symbol's start offset.
C4_FilterIsHalfOpen ==
  \A r \in renders :
    IsRendered(r) =>
      \A sym \in Elements(view[r].symbols) :
        \A d \in Elements(view[r].diagnostics.list) :
          (d \in Elements(sym.diagnostics))
            <=> (d.start <= sym.bounds.start /\ sym.bounds.start < d.start + d.length)

\* The yOffset the data model gives every offset-derived box of a render.
DocumentedYOffset(r) ==
  IF isJsxOnly[r] THEN Len(project[sourceFile[r]].imports) + 2 ELSE 1

DocumentedTop(r, start) ==
  (GetLineAndColumnAtPos(project[sourceFile[r]], start).line - DocumentedYOffset(r)) * lineHeight

\* C5: every offset-derived box of a render, symbol bound or diagnostic
\* decoration, has top = (line - yOffset) * 20 with yOffset = 1 in full-source
\* mode and importDeclarationCount + 2 in markup-only mode; a diagnostic and a
\* symbol that start at the same offset have the same top.
C5_OneYOffsetForAllBoxes ==
  \A r \in renders :
    (IsRendered(r) /\ HasSourceFile(r)) =>
      /\ \A sym \in Elements(view[r].symbols) :
           sym.bounds.top = DocumentedTop(r, sym.bounds.start)
      /\ \A dec \in Elements(view[r].decorations) :
           dec.top = DocumentedTop(r, dec.start)
      /\ \A sym \in Elements(view[r].symbols), dec \in Elements(view[r].decorations) :
           sym.bounds.start = dec.start => sym.bounds.top = dec.top

\* C6: in markup-only mode with k >= 1 suppressed import lines and one
\* separator line, a symbol on rendered line r (0-based) has top = r * 20, so
\* top = 0 on the first rendered line, and no symbol bound has a negative top.
C6_MarkupOnlyTops ==
  \A r \in renders :
    (IsRendered(r) /\ HasSourceFile(r) /\ isJsxOnly[r]
       /\ Len(project[sourceFile[r]].imports) >= 1) =>
      LET doc == project[sourceFile[r]]
      IN /\ \A id \in doc.idents :
              id.parent = "Other" =>
                \E sym \in Elements(view[r].symbols) :
                   /\ sym.bounds.start = CodeIdentifierNode(doc, id).start
                   /\ sym.bounds.top = (id.line - 1) * lineHeight
         /\ \A sym \in Elements(view[r].symbols) : sym.bounds.top >= 0

(***************************************************************************)
(* Claims about concurrent calls of Code (checked under Spec).             *)
(***************************************************************************)
TextMutatingSteps == <<"createSourceFile", "fixMissingImports", "formatText">>

\* C7: diagnostics are read only after the document was registered, its
\* missing imports resolved and its text reformatted, in that order, and the
\* symbol bounds are computed from the same text as the diagnostics.
C7_DiagnosticsAfterTextMutations ==
  \A r \in renders :
    /\ (pc[r] \in {"returned", "done"} /\ HasSourceFile(r))
         => project[sourceFile[r]].ops = TextMutatingSteps
    /\ (IsRendered(r) /\ HasSourceFile(r))
         => /\ view[r].diagnostics.defined
            /\ view[r].diagnosticsOps = TextMutatingSteps
            /\ view[r].boundsOps = view[r].diagnosticsOps

\* A call has rendered the file another call of the same filename registered
\* after it.
C7_Witness ==
  \E r \in renders :
    /\ IsRendered(r) /\ HasSourceFile(r)
    /\ view[r].textOwner # r
    /\ Len(view[r].symbols) > 0

RECURSIVE SumLoads(_)
SumLoads(n) == IF n = 0 THEN 0 ELSE SumLoads(n - 1) + loads[n]

C10_NoSourceFileForOtherLanguages ==
  \A r \in renders :
    FinalLanguage(props[r]) \notin {"js", "jsx", "ts", "tsx"} =>
      /\ sourceFile[r] = NoFile
      /\ ~calledLoad[r]
      /\ \A f \in DOMAIN project : project[f].owner # r
      /\ (\A r2 \in renders :
            props[r2].request = props[r].request
              => FinalLanguage(props[r2]) \notin {"js", "jsx", "ts", "tsx"})
           => loads[props[r].request] = 0
      /\ IsRendered(r) =>
           /\ view[r].symbols = <<>>
           /\ view[r].decorations = <<>>
           /\ ~view[r].diagnostics.defined
           /\ view[r].lines =
                CodeView(TRUE, AnalyzedSourceFile(props[r].snippet, r, 0, "named"),
                         FALSE, props[r].tokens, props[r].showErrors).lines

\* A call for `mjs` has rendered its tokens.
C10_Witness ==
  \E r \in renders :
    /\ props[r].language = "mjs" /\ props[r].naming # "source"
    /\ IsRendered(r)
    /\ Len(view[r].lines) > 0

\* C11: a call of Code that supplies neither `value` nor `source` fails before
\* any document is registered and before the highlighter is invoked: it never
\* gets a source file, no file of the project holds its text, and it never
\* reaches the call of the highlighter.
C11_FailsFastWithoutValueOrSource ==
  \A r \in renders :
    SuppliesNeither(props[r]) =>
      /\ sourceFile[r] = NoFile
      /\ \A f \in DOMAIN project : project[f].owner # r
      /\ pc[r] \notin {"returned", "threw", "done"}

\* C12: the auto-open flag of a symbol is true exactly when showErrors is
\* enabled and the symbol's filtered diagnostics are not empty; with
\* showErrors false or absent it is never true.
C12_AutoOpenIffErrorsShown ==
  \A r \in renders :
    IsRendered(r) =>
      \A sym \in Elements(view[r].symbols) :
        /\ (sym.isQuickInfoOpen = "true")
             <=> (props[r].showErrors = "true" /\ Len(sym.diagnostics) > 0)
        /\ props[r].showErrors # "true" => sym.isQuickInfoOpen # "true"

\* A render with showErrors has a symbol that opens and one that does not.
C12_Witness ==
  \E r \in renders :
    /\ IsRendered(r)
    /\ props[r].showErrors = "true"
    /\ \E a \in Elements(view[r].symbols), b \in Elements(view[r].symbols) :
         /\ Len(a.diagnostics) > 0 /\ a.isQuickInfoOpen = "true"
         /\ Len(b.diagnostics) = 0 /\ b.isQuickInfoOpen = "false"

\* Two colors are equal when letter case is ignored.
EqualIgnoringCase(a, b) ==
  /\ Len(a) = Len(b)
  /\ \A i \in 1..Len(a) :
       \/ a[i] = b[i]
       \/ {a[i], b[i]} \in {{"a", "A"}, {"f", "F"}}

IsAllWhiteSpace(content) == \A i \in 1..Len(content) : content[i] \in WhiteSpace

\* C13: a token is rendered as plain text with no style wrapper exactly when
\* its color equals the theme's editor.foreground, letter case ignored, or its
\* content is entirely white space; every other token is rendered as a span
\* with its color and font style, underlined exactly when hasError is true.
C13_TokenSuppression ==
  \A r \in renders :
    IsRendered(r) =>
      /\ Len(view[r].lines) = Len(props[r].tokens)
      /\ \A i \in 1..Len(props[r].tokens) :
           /\ Len(view[r].lines[i].items) = Len(props[r].tokens[i])
           /\ \A j \in 1..Len(props[r].tokens[i]) :
                LET token == props[r].tokens[i][j]
                    item == view[r].lines[i].items[j]
                IN /\ item.content = token.content
                   /\ (item.kind = "text")
                        <=> (EqualIgnoringCase(token.color, ThemeEditorForeground)
                               \/ IsAllWhiteSpace(token.content))
                   /\ item.kind = "text" =>
                        item.color = <<>> /\ item.fontStyle = "" /\ item.textDecoration = ""
                   /\ item.kind # "text" =>
                        /\ item.kind = "span"
                        /\ item.color = token.color
                        /\ item.fontStyle = token.fontStyle
                        /\ item.textDecoration =
                             (IF token.hasError THEN "red wavy underline" ELSE "none")

\* A token with visible content whose color differs from the foreground as
\* CodeView compares it only by letter case is rendered as plain text.
C13_Witness ==
  \E r \in renders :
    /\ IsRendered(r)
    /\ \E i \in 1..Len(props[r].tokens) : \E j \in 1..Len(props[r].tokens[i]) :
         /\ props[r].tokens[i][j].color # ToLowerCase(ThemeEditorForeground)
         /\ ~IsAllWhiteSpace(props[r].tokens[i][j].content)
         /\ props[r].tokens[i][j].hasError
         /\ view[r].lines[i].items[j].kind = "text"

(***************************************************************************)
(* Claims about the highlight bands (checked under SpecHL).                *)
(***************************************************************************)
\* The band of a well-formed token: lines N..M, or N..N of a single number.
DocumentedBand(t) ==
  LET parts == Split(t, "-")
      first == DecimalValue(parts[1])
      last == IF Len(parts) = 1 THEN first ELSE DecimalValue(parts[2])
  IN [top |-> Num((first - 1) * 20), height |-> Num((last - first + 1) * 20)]

\* C14: each token of a well-formed highlight string yields one band with
\* top = (start - 1) * 20 and height = (end - start + 1) * 20, end = start for
\* a single number; "1" yields one band with top 0 and height 20; an empty or
\* absent highlight string yields no band.
C14_BandGeometry ==
  bands.rendered =>
    /\ IsWellFormedMeta =>
         /\ Len(bands.list) = Len(MetaTokens)
         /\ \A i \in 1..Len(MetaTokens) : bands.list[i] = DocumentedBand(MetaTokens[i])
    /\ highlight = <<"1">> => bands.list = <<[top |-> Num(0), height |-> Num(20)]>>
    /\ (highlight = NoHighlight \/ highlight = <<>>) => bands.list = <<>>

\* "1,3-4" has yielded the bands of line 1 and of lines 3 to 4.
C14_Witness ==
  /\ bands.rendered
  /\ highlight = <<"1", ",", "3", "-", "4">>
  /\ bands.list = <<[top |-> Num(0), height |-> Num(20)],
                    [top |-> Num(40), height |-> Num(40)]>>

\* A band covers the vertical interval [index * 20, (index + 1) * 20).
BandCoversLine(band, index) ==
  /\ band.top.k = "num" /\ band.height.k = "num"
  /\ band.top.v <= index * 20
  /\ (index + 1) * 20 <= band.top.v + band.height.v

\* C17: for every highlight string, well-formed or not, the line index the
\* gutter predicate was applied to is marked highlighted exactly when one of
\* the rendered bands covers the interval of that line.
C17_GutterAgreesWithBands ==
  (hlpc = "done" /\ bands.rendered) =>
    (shouldHighlight <=> \E i \in 1..Len(bands.list) : BandCoversLine(bands.list[i], lineIndex))

\* "3-0": the gutter marks line 3 and the band of the token covers it.
C17_Witness ==
  /\ hlpc = "done" /\ bands.rendered
  /\ highlight = <<"3", "-", "0">>
  /\ lineIndex = 2
  /\ shouldHighlight
  /\ \E i \in 1..Len(bands.list) : BandCoversLine(bands.list[i], lineIndex)

(***************************************************************************)
(* Claims about getSymbolBounds (checked under SpecView).                  *)
(***************************************************************************)
DocParents == {"JSDoc", "JSDocTag"}

MarkupOnlyImportParents == {"ImportSpecifier", "ImportClause"}

\* The start offsets of the surviving nodes: the module specifiers of the
\* imports unless markup-only, then the identifiers in text order without
\* those of documentation comments and, markup-only, of import specifiers
\* and import clauses.
SurvivingStarts(doc, jsxOnly) ==
  LET specifiers == IF jsxOnly THEN <<>>
                    ELSE [i \in 1..Len(doc.imports) |-> ModuleSpecifierNode(doc, i).start]
      identifiers ==
        SelectSeq(GetIdentifiers(doc),
                  LAMBDA n : /\ n.parent \notin DocParents
                             /\ jsxOnly => n.parent \notin MarkupOnlyImportParents)
  IN specifiers \o [i \in 1..Len(identifiers) |-> identifiers[i].start]

SymbolStarts(r) == [i \in 1..Len(view[r].symbols) |-> view[r].symbols[i].bounds.start]

OneBoundPerSurvivingNode(r) ==
  SymbolStarts(r) = SurvivingStarts(project[sourceFile[r]], isJsxOnly[r])

\* C15 as stated: getSymbolBounds yields one bound per surviving node, module
\* specifiers first and identifiers after, a node surviving unless its parent
\* is a documentation comment or tag, and markup-only no module specifier and
\* no identifier of an import specifier or clause having a bound; a document
\* with zero identifiers yields an empty sequence.
C15_BoundsOfSurvivingNodes ==
  \A r \in renders :
    (IsRendered(r) /\ HasSourceFile(r)) =>
      /\ OneBoundPerSurvivingNode(r)
      /\ GetIdentifiers(project[sourceFile[r]]) = <<>> => view[r].symbols = <<>>

\* C15 as amended: as stated, but a document with zero identifiers yields an
\* empty sequence when it has no import declaration or is markup-only; in
\* full-source mode it yields the bounds of its module specifiers.
C15_BoundsOfSurvivingNodesAndSpecifiers ==
  \A r \in renders :
    (IsRendered(r) /\ HasSourceFile(r)) =>
      LET doc == project[sourceFile[r]]
      IN /\ OneBoundPerSurvivingNode(r)
         /\ (GetIdentifiers(doc) = <<>> /\ (doc.imports = <<>> \/ isJsxOnly[r]))
              => view[r].symbols = <<>>
         /\ (GetIdentifiers(doc) = <<>> /\ ~isJsxOnly[r])
              => Len(view[r].symbols) = Len(doc.imports)

\* A markup-only render has dropped the identifier of the added import and an
\* identifier of a documentation comment, and has kept an identifier.
C15_Witness ==
  \E r \in renders :
    /\ IsRendered(r) /\ HasSourceFile(r) /\ isJsxOnly[r]
    /\ \E id \in project[sourceFile[r]].idents : id.parent \in DocParents
    /\ \E i \in 1..Len(project[sourceFile[r]].imports) :
         ImportIdentParent(project[sourceFile[r]].imports[i]) \in MarkupOnlyImportParents
    /\ Len(view[r].symbols) = 1
    /\ Len(GetIdentifiers(project[sourceFile[r]])) = 3

(***************************************************************************)
(* Claims about the markup-only flag (checked under Spec).                 *)
(***************************************************************************)
\* The snippet has a top-level import or statement.
HasTopLevelConstructs(snippet) ==
  \/ snippet.imports # <<>>
  \/ \E id \in snippet.idents : id.parent = "VariableDeclaration"

\* C16: the markup-only flag Code passes to the highlighter and to CodeView is
\* true only for a snippet without top-level import and statement: a
\* full-source snippet is never rendered markup-only, whatever imports
\* fixMissingImports adds.
C16_MarkupOnlyOnlyForMarkup ==
  \A r \in renders :
    (pc[r] \in {"returned", "threw", "done"} /\ isJsxOnly[r])
      => ~HasTopLevelConstructs(FinalValue(props[r]))

(***************************************************************************)
(* Claims about Navigation (checked under SpecNav).                        *)
(***************************************************************************)
\* The one-based position of the pathname among the keys, 0 when it is no key.
PositionOfPathname ==
  IF \E i \in 1..Len(allModulesKeysByPathname) : allModulesKeysByPathname[i] = Join(pathname)
    THEN CHOOSE i \in 1..Len(allModulesKeysByPathname) :
           allModulesKeysByPathname[i] = Join(pathname)
    ELSE 0

ModuleAtPosition(i) ==
  IF 1 <= i /\ i <= Len(allModulesKeysByPathname)
    THEN <<"/">> \o allModulesKeysByPathname[i] ELSE Null

\* C18: for a pathname p that is a key, get(p) returns as active the module
\* at p, as previous the module at the key before p in key order and as next
\* the module at the key after p, absent at the first and the last key, also
\* when p is a substring of an earlier key.
C18_SiblingsOfActiveKey ==
  (navpc = "done" /\ PositionOfPathname > 0) =>
    /\ ~data.isNull
    /\ data.active = ModuleAtPosition(PositionOfPathname)
    /\ data.previous = ModuleAtPosition(PositionOfPathname - 1)
    /\ data.next = ModuleAtPosition(PositionOfPathname + 1)

====
